---- MODULE Spec2Model ----
(***************************************************************************)
(* Model of backend/dialogue_manager.py: the in-memory session store of    *)
(* DialogueManager (get_session, update_session, clear_session), the merge *)
(* of an NLU extraction into a session (_merge_nlu_to_session) and the     *)
(* billing-conversation state machine (determine_next_step); and of three  *)
(* other parts of the backend: the rate limiter of backend/main.py, the    *)
(* sync push of backend/app/api/v1/endpoints/sync.py and the dues update   *)
(* of create_bill in backend/api/bills.py.                                 *)
(*                                                                         *)
(* Encoding of Python values.  A dict is a function whose DOMAIN is the    *)
(* set of keys the dict has.  Scalars are strings: None is "None" (which   *)
(* is also what an f-string prints for it), a number is written as its     *)
(* decimal numeral ("0", "5", "40"), so that one test decides bool(v).     *)
(* A text is a sequence of characters, one string per character; the       *)
(* Devanagari characters are named by their code points.                   *)
(***************************************************************************)
EXTENDS Integers, Sequences, FiniteSets, TLC

VARIABLES sessions, now, call, pre, merged, ret, inflight,
          RATE_LIMIT_STORE, window, rows, pushed, totalDues, requests

\* the state of the rate limiter, of the sync tables and of the bills API
backendVars == <<RATE_LIMIT_STORE, window, rows, pushed, totalDues, requests>>

vars == <<sessions, now, call, pre, merged, ret, inflight,
          RATE_LIMIT_STORE, window, rows, pushed, totalDues, requests>>

(***************************************************************************)
(* Python helpers                                                          *)
(***************************************************************************)
None == "None"

\* bool(v) of a scalar: None, the empty string and the number 0 are falsy
Truthy(v) == v \notin {None, "", "0"}

\* d.get(k)
Get(d, k) == IF k \in DOMAIN d THEN d[k] ELSE None

\* d.get(k, default)
GetOr(d, k, default) == IF k \in DOMAIN d THEN d[k] ELSE default

\* d[k] = v
SetKey(d, k, v) == [x \in (DOMAIN d) \cup {k} |-> IF x = k THEN v ELSE d[x]]

\* d.pop(k)
PopKey(d, k) == [x \in (DOMAIN d) \ {k} |-> d[x]]

UpperToLower ==
    [A |-> "a", B |-> "b", C |-> "c", D |-> "d", E |-> "e", F |-> "f",
     G |-> "g", H |-> "h", I |-> "i", J |-> "j", K |-> "k", L |-> "l",
     M |-> "m", N |-> "n", O |-> "o", P |-> "p", Q |-> "q", R |-> "r",
     S |-> "s", T |-> "t", U |-> "u", V |-> "v", W |-> "w", X |-> "x",
     Y |-> "y", Z |-> "z"]

\* str.lower(): cased Latin letters are folded, everything else is kept
Lower(text) ==
    [i \in 1..Len(text) |->
        IF text[i] \in DOMAIN UpperToLower THEN UpperToLower[text[i]] ELSE text[i]]

\* needle in hay
Contains(needle, hay) ==
    \E i \in 0..(Len(hay) - Len(needle)) :
        \A j \in 1..Len(needle) : hay[i + j] = needle[j]

(***************************************************************************)
(* Keywords of determine_next_step                                         *)
(***************************************************************************)
KwCancel == <<"c", "a", "n", "c", "e", "l">>
KwStop == <<"s", "t", "o", "p">>
\* U+092C BA, U+0902 ANUSVARA, U+0926 DA
KwBand == <<"U+092C", "U+0902", "U+0926">>
KwConfirm == <<"c", "o", "n", "f", "i", "r", "m">>
KwSave == <<"s", "a", "v", "e">>
\* U+092C BA, U+0938 SA
KwBas == <<"U+092C", "U+0938">>
KwDone == <<"d", "o", "n", "e">>

IsCancelMut(text) ==
    \/ Contains(KwCancel, text)
    \/ Contains(KwStop, text)
    \/ Contains(KwBand, text)

\* line 59: the global interrupt test
IsCancel(text) ==
    \/ Contains(KwCancel, Lower(text))
    \/ Contains(KwStop, Lower(text))
    \/ Contains(KwBand, text)

\* line 102: the finish test
IsFinish(text) ==
    \/ Contains(KwConfirm, Lower(text))
    \/ Contains(KwSave, Lower(text))
    \/ Contains(KwBas, Lower(text))
    \/ Contains(KwDone, Lower(text))

(***************************************************************************)
(* Session store                                                           *)
(***************************************************************************)
SESSION_TIMEOUT == 60

\* lines 25-34: the session get_session creates
NewSession(t) ==
    [active |-> FALSE,
     intent |-> None,
     customerName |-> None,
     items |-> <<>>,
     payment |-> [amount |-> None, mode |-> None],
     last_question |-> None,
     turn_count |-> 0,
     last_active |-> t]

ExpiredMut(session, t) == t - session.last_active >= SESSION_TIMEOUT

\* line 19: the timeout test
Expired(session, t) == t - session.last_active > SESSION_TIMEOUT

ClearSessionStoreMut(S, uid) == IF uid \in DOMAIN S THEN <<>> ELSE S

\* lines 47-49: clear_session on the dict S
ClearSessionStore(S, uid) == IF uid \in DOMAIN S THEN PopKey(S, uid) ELSE S

GetSessionStoreMut(S, uid, t) ==
    IF uid \in DOMAIN S /\ ~Expired(S[uid], t)
    THEN SetKey(S, uid, [S[uid] EXCEPT !.last_active = t])
    ELSE SetKey(ClearSessionStore(S, uid), uid, NewSession(t))

\* lines 15-35: the dict self.sessions after get_session(uid) at time t;
\* the session returned is the one stored under uid
GetSessionStore(S, uid, t) ==
    IF uid \in DOMAIN S /\ ~Expired(S[uid], t)
    THEN S
    ELSE SetKey(ClearSessionStore(S, uid), uid, NewSession(t))

UpdateFieldsMut(current, data) ==
    [k \in DOMAIN current |->
        IF k \in DOMAIN data.vals THEN data.vals[k]
        ELSE IF k \in data.nulls THEN None
        ELSE current[k]]

\* lines 41-43: data is given as the set of its keys whose value is None
\* (nulls) and the dict of its other entries (vals)
UpdateFields(current, data) ==
    [k \in DOMAIN current |->
        IF k \in DOMAIN data.vals THEN data.vals[k] ELSE current[k]]

\* lines 37-45: the dict self.sessions after update_session(uid, data)
UpdateSessionStore(S, uid, data, t) ==
    IF uid \in DOMAIN S
    THEN SetKey(S, uid, [UpdateFields(S[uid], data) EXCEPT !.last_active = t])
    ELSE S

(***************************************************************************)
(* Merge engine                                                            *)
(***************************************************************************)
MergeCustomerNameMut(session, nlu_data) ==
    IF Truthy(Get(nlu_data, "customerName")) /\ ~Truthy(session.customerName)
    THEN [session EXCEPT !.customerName = nlu_data.customerName]
    ELSE session

\* line 122
MergeIntent(session, nlu_data) ==
    IF Truthy(Get(nlu_data, "intent"))
    THEN [session EXCEPT !.intent = nlu_data.intent]
    ELSE session

\* line 123
MergeCustomerName(session, nlu_data) ==
    IF Truthy(Get(nlu_data, "customerName"))
    THEN [session EXCEPT !.customerName = nlu_data.customerName]
    ELSE session

CompleteLastMut(last, it) == last

\* lines 138-140: a fragment without a name completes the last item
CompleteLast(last, it) ==
    LET l1 == IF Truthy(Get(it, "qty")) /\ ~Truthy(Get(last, "qty"))
              THEN SetKey(last, "qty", it["qty"]) ELSE last
    IN  IF Truthy(Get(it, "price")) /\ ~Truthy(Get(l1, "price"))
        THEN SetKey(l1, "price", it["price"]) ELSE l1

\* lines 136-143: one iteration of the loop over new_items
MergeItem(items, it) ==
    IF ~Truthy(Get(it, "itemName")) /\ items # <<>>
    THEN [items EXCEPT ![Len(items)] = CompleteLast(items[Len(items)], it)]
    ELSE Append(items, it)

RECURSIVE MergeItems(_, _)
\* lines 128-143: the loop over new_items, in order
MergeItems(items, new_items) ==
    IF new_items = <<>> THEN items
    ELSE MergeItems(MergeItem(items, Head(new_items)), Tail(new_items))

\* lines 120-143
MergeNluToSession(session, nlu_data) ==
    LET s1 == MergeIntent(session, nlu_data)
        s2 == MergeCustomerName(s1, nlu_data)
        new_items == GetOr(nlu_data, "items", <<>>)
    IN  [s2 EXCEPT !.items = MergeItems(s2.items, new_items)]

(***************************************************************************)
(* Turn planner                                                            *)
(***************************************************************************)
Listen(session, text) ==
    [session |-> session, ret |-> [text |-> text, action |-> "listen"]]

\* line 112: the "qty itemName" pairs; i['qty'] and i['itemName'] raise
\* KeyError on an item that lacks the key
SummaryRaises(items) ==
    \E i \in 1..Len(items) : {"qty", "itemName"} \ DOMAIN items[i] # {}

ItemsSummary(items) ==
    [i \in 1..Len(items) |-> <<items[i]["qty"], items[i]["itemName"]>>]

ConfirmationMut(session) ==
    IF SummaryRaises(session.items)
    THEN [session |-> session, ret |-> [raised |-> "KeyError"]]
    ELSE [session |-> NewSession(session.last_active),
          ret |-> [text |-> [prompt |-> "Complete. Shall I save it?",
                             intent |-> session.intent,
                             customerName |-> session.customerName,
                             items |-> ItemsSummary(session.items)],
                   action |-> "confirm",
                   payload |-> session]]

\* lines 109-118
Confirmation(session) ==
    IF SummaryRaises(session.items)
    THEN [session |-> session, ret |-> [raised |-> "KeyError"]]
    ELSE [session |-> session,
          ret |-> [text |-> [prompt |-> "Complete. Shall I save it?",
                             intent |-> session.intent,
                             customerName |-> session.customerName,
                             items |-> ItemsSummary(session.items)],
                   action |-> "confirm",
                   payload |-> session]]

PopLastMut(items) == items

\* line 91: session["items"].pop()
PopLast(items) == SubSeq(items, 1, Len(items) - 1)

ItemPhaseMut(session, text) ==
    IF session.items = <<>>
    THEN Listen(session, [prompt |-> "Which item?"])
    ELSE
    LET last_item == session.items[Len(session.items)] IN
    IF ~Truthy(Get(last_item, "itemName"))
    THEN Listen([session EXCEPT !.items = PopLast(session.items)],
                [prompt |-> "Please say the item name again."])
    ELSE IF ~Truthy(Get(last_item, "qty"))
    THEN Listen(session, [prompt |-> "Quantity?", itemName |-> last_item["itemName"]])
    ELSE IF IsFinish(text)
    THEN Confirmation(session)
    ELSE Listen(session, [prompt |-> "Added. Anything else?",
                          qty |-> last_item["qty"],
                          itemName |-> last_item["itemName"]])

\* lines 81-107
ItemPhase(session, text) ==
    IF session.items = <<>>
    THEN Listen(session, [prompt |-> "Which item?"])
    ELSE
    LET last_item == session.items[Len(session.items)] IN
    IF ~Truthy(Get(last_item, "itemName"))
    THEN Listen([session EXCEPT !.items = PopLast(session.items)],
                [prompt |-> "Please say the item name again."])
    ELSE IF ~Truthy(Get(last_item, "qty"))
    THEN Listen(session, [prompt |-> "Quantity?", itemName |-> last_item["itemName"]])
    ELSE IF ~Truthy(Get(last_item, "price")) /\ ~Truthy(Get(last_item, "salePrice"))
    THEN Listen(session, [prompt |-> "Price?", itemName |-> last_item["itemName"]])
    ELSE IF IsFinish(text)
    THEN Confirmation(session)
    ELSE Listen(session, [prompt |-> "Added. Anything else?",
                          qty |-> last_item["qty"],
                          itemName |-> last_item["itemName"]])

\* lines 75-118
CustomerPhase(session, text) ==
    IF ~Truthy(session.customerName)
    THEN Listen([session EXCEPT !.last_question = "customerName"],
                [prompt |-> "Customer Name?"])
    ELSE IF session.intent = "create_bill"
    THEN ItemPhase(session, text)
    ELSE Confirmation(session)

\* lines 66-118: the planner on the merged session
Plan(session, text, nlu_data) ==
    IF ~Truthy(session.intent)
    THEN IF Truthy(Get(nlu_data, "intent"))
         THEN CustomerPhase([session EXCEPT !.intent = nlu_data.intent,
                                            !.active = TRUE], text)
         ELSE Listen([session EXCEPT !.last_question = "intent"],
                     [prompt |-> "Bill, Payment or Return?"])
    ELSE CustomerPhase(session, text)

(***************************************************************************)
(* Bounds and inputs                                                       *)
(***************************************************************************)
\* longest items list a session is driven to
MaxItems == 2
\* last instant of the clock
MaxNow == 121

\* seconds that pass between two calls
TickSteps == {60, 61}

Users == {"u1"}
TwoUsers == {"u1", "u2"}

TxtSale == <<"s", "a", "l", "e">>
TxtRamesh == <<"R", "a", "m", "e", "s", "h">>
TxtDone == <<"D", "o", "n", "e">>
TxtCancel == <<"C", "a", "n", "c", "e", "l", " ", "i", "t">>
\* "band karo" in Devanagari, the first word being the keyword
TxtBand == <<"U+092C", "U+0902", "U+0926", " ", "U+0915", "U+0930", "U+094B">>

Texts == {TxtSale, TxtRamesh, TxtDone, TxtCancel}
ItemTexts == {TxtSale, TxtDone, TxtCancel}
StoreTexts == {TxtSale, TxtCancel, TxtBand}

Rice540 == [itemName |-> "Rice", qty |-> "5", price |-> "40"]
RiceOnly == [itemName |-> "Rice", qty |-> None, price |-> None]
RiceZero == [itemName |-> "Rice", qty |-> "0", price |-> None]
QtyOnly == [itemName |-> None, qty |-> "7"]
PriceOnly == [itemName |-> None, qty |-> None, price |-> "9"]
NullItem == [itemName |-> None, qty |-> None, price |-> None]
\* a fragment that carries no qty key
RiceNoQty == [itemName |-> "Rice", price |-> "40"]

Fragments == {Rice540, RiceOnly, RiceZero, QtyOnly, PriceOnly, NullItem, RiceNoQty}

\* the extraction with no key at all
EmptyNlu == <<>>
\* the extraction in which every field is null
NullNlu == [intent |-> None, customerName |-> None, items |-> <<>>]

Payments == {[amount |-> "500", mode |-> "CASH"], [amount |-> "500", mode |-> None]}

\* Extractions as the extractor's contract shapes them; a null payment is
\* written as a missing payment key (the code never reads the key).
\* The conversation: every intent, customer and payment, one item
Extractions ==
    {EmptyNlu, NullNlu}
    \cup {[intent |-> i] : i \in {"SALE", "PAYMENT", "create_bill"}}
    \cup {[customerName |-> c] : c \in {"Ramesh", "Suresh"}}
    \cup {[items |-> <<Rice540>>], [items |-> <<QtyOnly>>]}
    \cup {[payment |-> p] : p \in Payments}
    \cup {[intent |-> "create_bill", customerName |-> "Ramesh",
           items |-> <<Rice540>>, payment |-> [amount |-> "500", mode |-> "CASH"]]}

\* The item loop: every fragment, one intent and one customer
ItemExtractions ==
    {EmptyNlu, NullNlu, [NullNlu EXCEPT !.items = <<NullItem>>]}
    \cup {[intent |-> "create_bill"], [customerName |-> "Ramesh"]}
    \cup {[items |-> <<f>>] : f \in Fragments}
    \cup {[items |-> <<RiceOnly, QtyOnly>>]}

\* The store: two users, few extractions
StoreExtractions ==
    {EmptyNlu, [intent |-> "SALE", customerName |-> "Ramesh"]}

\* partial updates of update_session: nulls are the keys given as None
UpdateData ==
    {[nulls |-> {"customerName"}, vals |-> [intent |-> "PAYMENT"]],
     [nulls |-> {"intent"}, vals |-> [customerName |-> "Suresh"]]}

(***************************************************************************)
(* Operations.  call is the operation last run with its arguments, pre the *)
(* store before it, merged the session right after line 64 of that turn    *)
(* (a sequence, empty when line 64 was not reached), ret its outcome.      *)
(***************************************************************************)
\* totalDues of the customer document before any bill (bills.py line 65)
InitialDues == 100

\* no turn is running; the bookkeeping of unserialised turns (see below)
Idle == [turns |-> <<>>, owners |-> <<>>, start |-> <<>>, done |-> <<>>,
         crossed |-> FALSE]

Init ==
    /\ sessions = <<>>
    /\ now = 0
    /\ call = [op |-> "init"]
    /\ pre = <<>>
    /\ merged = <<>>
    /\ ret = [value |-> None]
    /\ inflight = Idle
    /\ RATE_LIMIT_STORE = <<>>
    /\ window = <<>>
    /\ rows = <<>>
    /\ pushed = <<>>
    /\ totalDues = InitialDues
    /\ requests = <<>>

\* time.time() advances between calls
Tick(d) ==
    /\ now + d <= MaxNow
    /\ now' = now + d
    /\ call' = [op |-> "tick"]
    /\ pre' = sessions
    /\ merged' = <<>>
    /\ ret' = [value |-> None]
    /\ UNCHANGED <<sessions, inflight, backendVars>>

\* lines 15-35
GetSession(user_uid) ==
    /\ sessions' = GetSessionStore(sessions, user_uid, now)
    /\ ret' = [value |-> sessions'[user_uid]]
    /\ call' = [op |-> "get_session", user_uid |-> user_uid]
    /\ pre' = sessions
    /\ merged' = <<>>
    /\ UNCHANGED <<now, inflight, backendVars>>

\* lines 37-45
UpdateSession(user_uid, data) ==
    /\ sessions' = UpdateSessionStore(sessions, user_uid, data, now)
    /\ ret' = [value |-> None]
    /\ call' = [op |-> "update_session", user_uid |-> user_uid, data |-> data]
    /\ pre' = sessions
    /\ merged' = <<>>
    /\ UNCHANGED <<now, inflight, backendVars>>

\* lines 47-49
ClearSession(user_uid) ==
    /\ sessions' = ClearSessionStore(sessions, user_uid)
    /\ ret' = [value |-> None]
    /\ call' = [op |-> "clear_session", user_uid |-> user_uid]
    /\ pre' = sessions
    /\ merged' = <<>>
    /\ UNCHANGED <<now, inflight, backendVars>>

\* lines 51-118; extractor is None for a direct call, else the outcome of
\* the extractor that produced nlu
Turn(uid, txt, nlu, extractor) ==
    LET S0 == GetSessionStore(sessions, uid, now)
        session == [S0[uid] EXCEPT !.last_active = now]
        m == MergeNluToSession(session, nlu)
        out == Plan(m, txt, nlu)
    IN  /\ call' = IF extractor = None
                   THEN [op |-> "determine_next_step", user_uid |-> uid,
                         text |-> txt, nlu_data |-> nlu]
                   ELSE [op |-> "determine_next_step", user_uid |-> uid,
                         text |-> txt, nlu_data |-> nlu, extractor |-> extractor]
        /\ pre' = sessions
        /\ UNCHANGED <<now, inflight, backendVars>>
        /\ IF IsCancel(txt)
           THEN /\ sessions' = ClearSessionStore(SetKey(S0, uid, session), uid)
                /\ merged' = <<>>
                /\ ret' = [text |-> [prompt |-> "Okay boss, cancelled."],
                           action |-> "cancel"]
           ELSE /\ Len(m.items) <= MaxItems
                /\ sessions' = SetKey(S0, uid, out.session)
                /\ merged' = <<m>>
                /\ ret' = out.ret

\* lines 51-118
DetermineNextStep(user_uid, text, nlu_data) ==
    Turn(user_uid, text, nlu_data, None)

AnalyzeTextOnFailureMut ==
    [value |-> [intent |-> "UNKNOWN", customerName |-> None, items |-> <<>>,
                error |-> "NLU Extraction Failed"]]

\* nlu_engine.py lines 106-115: the except branch of analyze_text builds
\* its fallback dict with the name null, which Python does not define, so
\* evaluating the dict raises NameError and analyze_text returns nothing
AnalyzeTextOnFailure == [raised |-> "NameError"]

\* nlu_engine.py lines 98-104: the parsed JSON, with an items key ensured
\* (a payment key set to None is written as a missing key)
AnalyzeTextOnSuccess(parsed) ==
    [value |-> IF "items" \in DOMAIN parsed THEN parsed
               ELSE SetKey(parsed, "items", <<>>)]

\* The caller of the core (spec sections 5 and 6): extract, and on an
\* extractor error skip the merge and answer with a conversational error
\* turn; otherwise run determine_next_step on the extraction.
HandleTurn(user_uid, text, parsed, fails) ==
    LET out == IF fails THEN AnalyzeTextOnFailure ELSE AnalyzeTextOnSuccess(parsed)
    IN  IF "raised" \in DOMAIN out
        THEN /\ call' = [op |-> "handle_turn", user_uid |-> user_uid,
                         text |-> text, extractor |-> "failed"]
             /\ ret' = [text |-> [prompt |-> "trouble understanding"],
                        action |-> "error"]
             /\ pre' = sessions
             /\ merged' = <<>>
             /\ UNCHANGED <<sessions, now, inflight, backendVars>>
        ELSE Turn(user_uid, text, out.value, IF fails THEN "failed" ELSE "ok")

\* what the language model answers, before analyze_text normalises it
ParsedOutputs ==
    {EmptyNlu,
     [intent |-> "SALE", customerName |-> "Ramesh"],
     [intent |-> "create_bill", customerName |-> None, items |-> <<Rice540>>],
     [intent |-> None, customerName |-> "Suresh", items |-> <<>>],
     [intent |-> "PAYMENT", customerName |-> None, items |-> <<>>,
      payment |-> [amount |-> "500", mode |-> "CASH"]]}

\* one user's turns through the extractor
NextPipeline ==
    \/ \E d \in TickSteps : Tick(d)
    \/ \E u \in Users : ClearSession(u)
    \/ \E u \in Users, text \in Texts, parsed \in ParsedOutputs, fails \in BOOLEAN :
           HandleTurn(u, text, parsed, fails)

SpecPipeline == Init /\ [][NextPipeline]_vars

\* one user's conversation
Next ==
    \/ \E d \in TickSteps : Tick(d)
    \/ \E u \in Users : GetSession(u)
    \/ \E u \in Users : ClearSession(u)
    \/ \E u \in Users, text \in Texts, nlu \in Extractions : DetermineNextStep(u, text, nlu)

Spec == Init /\ [][Next]_vars

\* one user's item loop
NextItems ==
    \/ \E u \in Users : ClearSession(u)
    \/ \E u \in Users, text \in ItemTexts, nlu \in ItemExtractions :
           DetermineNextStep(u, text, nlu)

SpecItems == Init /\ [][NextItems]_vars

\* the store shared by two users
NextStore ==
    \/ \E d \in TickSteps : Tick(d)
    \/ \E u \in TwoUsers : GetSession(u)
    \/ \E u \in TwoUsers, data \in UpdateData : UpdateSession(u, data)
    \/ \E u \in TwoUsers : ClearSession(u)
    \/ \E u \in TwoUsers, text \in StoreTexts, nlu \in StoreExtractions :
           DetermineNextStep(u, text, nlu)

SpecStore == Init /\ [][NextStore]_vars

(***************************************************************************)
(* Unserialised turns of one user.  Two threads run determine_next_step    *)
(* for the same user on the one session dict of the store, without a lock; *)
(* a thread can be overtaken between two iterations of the merge loop.     *)
(* inflight.turns holds, per running thread, its arguments and the         *)
(* fragments its loop has still to merge.  The rest of inflight is         *)
(* bookkeeping: owners[i] is the thread that appended items[i] ("old" for  *)
(* an item older than the running turns), start the session when the first *)
(* of the overlapping turns began, done the turns that have returned, and  *)
(* crossed tells that a nameless fragment of a thread that had appended an *)
(* item of its own was merged when the last item was the other thread's.   *)
(***************************************************************************)
Threads == {"t1", "t2"}
RaceUser == "u1"

DalOnly == [itemName |-> "Dal", qty |-> None, price |-> None]

\* what the two overlapping turns bring
RaceExtractions ==
    {[items |-> <<RiceOnly, QtyOnly>>], [items |-> <<DalOnly>>],
     [items |-> <<DalOnly, PriceOnly>>], [items |-> <<QtyOnly>>]}

RaceTexts == {TxtSale, TxtDone}

\* the turn that opens the bill, run alone
RaceSetup == [intent |-> "create_bill", customerName |-> "Ramesh"]

CallOf(op, th) == [op |-> op, thread |-> th]

\* lines 55-59, 122-126: a thread enters determine_next_step, passes the
\* interrupt test, merges the basic fields and reads new_items
RaceBegin(th, text, nlu_data) ==
    LET S0 == GetSessionStore(sessions, RaceUser, now)
        session == [S0[RaceUser] EXCEPT !.last_active = now]
        s2 == MergeCustomerName(MergeIntent(session, nlu_data), nlu_data)
        first == inflight.turns = <<>>
        turn == [text |-> text, nlu_data |-> nlu_data,
                 rest |-> GetOr(nlu_data, "items", <<>>), appended |-> FALSE]
    IN  /\ th \notin DOMAIN inflight.turns
        /\ ~first => Len(inflight.done) = 0
        /\ ~IsCancel(text)
        /\ sessions' = SetKey(S0, RaceUser, s2)
        /\ inflight' =
              IF first
              THEN [turns |-> SetKey(<<>>, th, turn),
                    owners |-> [i \in 1..Len(s2.items) |-> "old"],
                    start |-> <<s2>>, done |-> <<>>, crossed |-> FALSE]
              ELSE [inflight EXCEPT !.turns = SetKey(inflight.turns, th, turn)]
        /\ call' = CallOf("begin", th)
        /\ pre' = sessions
        /\ merged' = <<>>
        /\ ret' = [value |-> None]
        /\ UNCHANGED <<now, backendVars>>

\* lines 130-143: one iteration of the merge loop of thread th
RaceMergeStep(th) ==
    /\ th \in DOMAIN inflight.turns
    /\ inflight.turns[th].rest # <<>>
    /\ LET turn == inflight.turns[th]
           it == Head(turn.rest)
           session == sessions[RaceUser]
           items == MergeItem(session.items, it)
           appends == Len(items) > Len(session.items)
           completes == ~appends
           owners == inflight.owners
       IN  /\ Len(items) <= MaxItems
           /\ sessions' = SetKey(sessions, RaceUser, [session EXCEPT !.items = items])
           /\ inflight' =
                 [inflight EXCEPT
                    !.turns = SetKey(inflight.turns, th,
                                     [turn EXCEPT !.rest = Tail(turn.rest),
                                                  !.appended = turn.appended \/ appends]),
                    !.owners = IF appends THEN Append(owners, th) ELSE owners,
                    !.crossed = \/ inflight.crossed
                                \/ /\ completes
                                   /\ turn.appended
                                   /\ owners[Len(owners)] \notin {th, "old"}]
    /\ call' = CallOf("merge", th)
    /\ pre' = sessions
    /\ merged' = <<>>
    /\ ret' = [value |-> None]
    /\ UNCHANGED <<now, backendVars>>

\* lines 66-118: the loop of thread th is over, the planner answers
RaceFinish(th) ==
    /\ th \in DOMAIN inflight.turns
    /\ inflight.turns[th].rest = <<>>
    /\ LET turn == inflight.turns[th]
           out == Plan(sessions[RaceUser], turn.text, turn.nlu_data)
       IN  /\ sessions' = SetKey(sessions, RaceUser, out.session)
           /\ ret' = out.ret
           /\ inflight' =
                 [inflight EXCEPT
                    !.turns = PopKey(inflight.turns, th),
                    !.owners = SubSeq(inflight.owners, 1, Len(out.session.items)),
                    !.done = Append(inflight.done,
                                    [text |-> turn.text, nlu_data |-> turn.nlu_data])]
    /\ call' = CallOf("finish", th)
    /\ pre' = sessions
    /\ merged' = <<>>
    /\ UNCHANGED <<now, backendVars>>

NextRace ==
    \/ inflight.turns = <<>> /\ DetermineNextStep(RaceUser, TxtSale, RaceSetup)
    \/ \E th \in Threads, text \in RaceTexts, nlu \in RaceExtractions :
           RaceBegin(th, text, nlu)
    \/ \E th \in Threads : RaceMergeStep(th)
    \/ \E th \in Threads : RaceFinish(th)

SpecRace == Init /\ [][NextRace]_vars

\* a caller that stores drafted items with update_session, the last one
\* without a name (null, or the key missing)
HealData ==
    {[nulls |-> {}, vals |-> [items |-> <<Rice540, NullItem>>]],
     [nulls |-> {}, vals |-> [items |-> <<Rice540, [qty |-> "7"]>>]]}

HealExtractions ==
    {EmptyNlu, [intent |-> "create_bill", customerName |-> "Ramesh"],
     [items |-> <<QtyOnly>>], [items |-> <<Rice540>>]}

HealTexts == {TxtSale, TxtDone}

\* one user's bill whose items a caller rewrites between turns
NextHeal ==
    \/ \E u \in Users : ClearSession(u)
    \/ \E u \in Users, data \in HealData : UpdateSession(u, data)
    \/ \E u \in Users, text \in HealTexts, nlu \in HealExtractions :
           DetermineNextStep(u, text, nlu)

SpecHeal == Init /\ [][NextHeal]_vars

(***************************************************************************)
(* Rate limiter (backend/main.py).  The endpoints are coroutines and       *)
(* check_rate_limit does not await, so a call is one step.  Counts and     *)
(* times are integers.  window is the number of calls of each user that    *)
(* returned normally since the user's window was last started.             *)
(***************************************************************************)
\* main.py line 110
RATE_LIMIT_DURATION == 60
\* main.py line 111
RATE_LIMIT_MAX == 60
\* rejected calls made in one window before the model stops calling
MaxRejected == 2

RateExceededMut(count) == count > RATE_LIMIT_MAX + 1

\* main.py line 130
RateExceeded(count) == count > RATE_LIMIT_MAX

\* main.py lines 119-128: the entry stored for the user by a call at time t
RateEntry(store, user_uid, t) ==
    LET user_data == GetOr(store, user_uid,
                           [count |-> 0, reset_time |-> t + RATE_LIMIT_DURATION])
    IN  IF t > user_data.reset_time
        THEN [count |-> 1, reset_time |-> t + RATE_LIMIT_DURATION]
        ELSE [user_data EXCEPT !.count = user_data.count + 1]

\* main.py lines 115-132
CheckRateLimit(user_uid) ==
    LET entry == RateEntry(RATE_LIMIT_STORE, user_uid, now)
        started == \/ user_uid \notin DOMAIN RATE_LIMIT_STORE
                   \/ now > RATE_LIMIT_STORE[user_uid].reset_time
        before == IF started THEN 0 ELSE window[user_uid]
        rejected == RateExceeded(entry.count)
    IN  /\ entry.count <= RATE_LIMIT_MAX + MaxRejected
        /\ RATE_LIMIT_STORE' = SetKey(RATE_LIMIT_STORE, user_uid, entry)
        /\ window' = SetKey(window, user_uid, IF rejected THEN before ELSE before + 1)
        /\ ret' = IF rejected THEN [raised |-> "429"] ELSE [value |-> None]
        /\ call' = [op |-> "check_rate_limit", user_uid |-> user_uid]
        /\ pre' = RATE_LIMIT_STORE
        /\ merged' = <<>>
        /\ UNCHANGED <<sessions, now, inflight, rows, pushed, totalDues, requests>>

\* two users calling the rate-limited endpoints while time passes
NextRate ==
    \/ \E d \in TickSteps : Tick(d)
    \/ \E u \in TwoUsers : CheckRateLimit(u)

SpecRate == Init /\ [][NextRate]_vars

(***************************************************************************)
(* Sync push (backend/app/api/v1/endpoints/sync.py).  rows is one synced   *)
(* table, a dict from id to the row; name stands for the columns a schema  *)
(* item carries besides id and updated_at.  The session autoflushes, so a  *)
(* select sees the rows added earlier in the same push.  pushed is, for    *)
(* each id, the greatest updated_at pushed so far.                         *)
(***************************************************************************)
\* greatest updated_at a client sends
MaxStamp == 3

Ids == {"i1", "i2"}
Businesses == {"A", "B"}
Names == {"n1", "n2"}
SyncItems == [id : Ids, updated_at : 1..MaxStamp, name : Names]

\* payloads of one item, and of two items for the same id
PushItems ==
    {<<x>> : x \in SyncItems}
    \cup {<<x, y>> : x \in {z \in SyncItems : z.id = "i1"},
                     y \in {z \in SyncItems : z.id = "i1" /\ z.name = "n2"}}

NewerMut(inc_updated_at, db_updated_at) == inc_updated_at >= db_updated_at

\* sync.py line 43
Newer(inc_updated_at, db_updated_at) == inc_updated_at > db_updated_at

\* sync.py lines 15-47: the table after upsert_entity
UpsertEntity(table, schema_item, business_id) ==
    LET row == [business_id |-> business_id,
                updated_at |-> schema_item.updated_at,
                name |-> schema_item.name]
    IN  IF schema_item.id \notin DOMAIN table
        THEN SetKey(table, schema_item.id, row)
        ELSE IF Newer(schema_item.updated_at, table[schema_item.id].updated_at)
        THEN SetKey(table, schema_item.id, row)
        ELSE table

RECURSIVE UpsertAll(_, _, _)
\* sync.py lines 58-59: the loop over the items of one table
UpsertAll(table, items, business_id) ==
    IF items = <<>> THEN table
    ELSE UpsertAll(UpsertEntity(table, Head(items), business_id), Tail(items),
                   business_id)

RECURSIVE MaxPushed(_, _)
MaxPushed(seen, items) ==
    IF items = <<>> THEN seen
    ELSE LET x == Head(items)
             m == IF x.id \in DOMAIN seen /\ seen[x.id] >= x.updated_at
                  THEN seen[x.id] ELSE x.updated_at
         IN  MaxPushed(SetKey(seen, x.id, m), Tail(items))

\* sync.py lines 51-83
PushChanges(business_id, customers) ==
    /\ rows' = UpsertAll(rows, customers, business_id)
    /\ pushed' = MaxPushed(pushed, customers)
    /\ ret' = [value |-> "success"]
    /\ call' = [op |-> "push_changes", business_id |-> business_id,
                customers |-> customers]
    /\ pre' = rows
    /\ merged' = <<>>
    /\ UNCHANGED <<sessions, now, inflight, RATE_LIMIT_STORE, window, totalDues,
                   requests>>

\* clients of two businesses pushing
NextSync ==
    \E b \in Businesses, customers \in PushItems : PushChanges(b, customers)

SpecSync == Init /\ [][NextSync]_vars

(***************************************************************************)
(* Dues update of create_bill (backend/api/bills.py).  The customer        *)
(* document lives in Firestore, shared by every server process; a request  *)
(* reads it (line 29), writes the bill documents (lines 53-59) and updates *)
(* totalDues from the value it read (lines 62-66), each a separate call to *)
(* the database with no transaction around them.  requests maps a request *)
(* to its position, its due amount and the totalDues it read.  Amounts are *)
(* integers.                                                               *)
(***************************************************************************)
Requests == {"r1", "r2"}
\* bill.total - bill.paid_amount of the bills sent
DueAmounts == {0, 30, 50}

\* bills.py lines 28-34: the customer snapshot is read
BillRead(r, due_amount) ==
    /\ r \notin DOMAIN requests
    /\ requests' = SetKey(requests, r, [pc |-> "read", due_amount |-> due_amount,
                                        current_dues |-> totalDues])
    /\ call' = [op |-> "create_bill", request |-> r, line |-> 29]
    /\ ret' = [value |-> None]
    /\ pre' = <<>>
    /\ merged' = <<>>
    /\ UNCHANGED <<sessions, now, inflight, RATE_LIMIT_STORE, window, rows, pushed,
                   totalDues>>

\* bills.py lines 53-59: the bill is written to both collections
BillWrite(r) ==
    /\ r \in DOMAIN requests
    /\ requests[r].pc = "read"
    /\ requests' = SetKey(requests, r, [requests[r] EXCEPT !.pc = "written"])
    /\ call' = [op |-> "create_bill", request |-> r, line |-> 59]
    /\ ret' = [value |-> None]
    /\ pre' = <<>>
    /\ merged' = <<>>
    /\ UNCHANGED <<sessions, now, inflight, RATE_LIMIT_STORE, window, rows, pushed,
                   totalDues>>

\* bills.py lines 62-68: totalDues is set from the snapshot, and the
\* request answers
BillUpdateDues(r) ==
    /\ r \in DOMAIN requests
    /\ requests[r].pc = "written"
    /\ totalDues' = IF requests[r].due_amount > 0
                    THEN requests[r].current_dues + requests[r].due_amount
                    ELSE totalDues
    /\ requests' = SetKey(requests, r, [requests[r] EXCEPT !.pc = "done"])
    /\ call' = [op |-> "create_bill", request |-> r, line |-> 68]
    /\ ret' = [value |-> "success"]
    /\ pre' = <<>>
    /\ merged' = <<>>
    /\ UNCHANGED <<sessions, now, inflight, RATE_LIMIT_STORE, window, rows, pushed>>

\* two unpaid or paid bills for one customer, handled by two server
\* processes
NextBills ==
    \/ \E r \in Requests, d \in DueAmounts : BillRead(r, d)
    \/ \E r \in Requests : BillWrite(r)
    \/ \E r \in Requests : BillUpdateDues(r)

SpecBills == Init /\ [][NextBills]_vars

(***************************************************************************)
(* Properties                                                              *)
(***************************************************************************)
IsTurn == call.op = "determine_next_step"

\* the last call was a turn that reached the merge (no global interrupt)
Merging == IsTurn /\ merged # <<>>

\* lines 55-56: the session a turn works on, before line 59
Before ==
    [GetSessionStore(pre, call.user_uid, now)[call.user_uid] EXCEPT !.last_active = now]

Replied == "action" \in DOMAIN ret

\* C1: within one session lifetime, once session.intent is non-null no turn
\* changes it (a session with intent SALE that merges an extraction with
\* intent PAYMENT keeps SALE).
C1_WriteOnceIntent ==
    (Merging /\ Before.intent # None) =>
        /\ merged[1].intent = Before.intent
        /\ sessions[call.user_uid].intent = Before.intent

\* C2: the four-turn scenario on a fresh session: "sale" with {intent: SALE}
\* asks for the customer name; "Ramesh" with {customerName: Ramesh} asks
\* "which item?"; one complete item {Rice, 5, 40} is acknowledged with
\* "anything else?"; "done" with an empty extraction returns confirm with a
\* summary containing "Ramesh" and "5 Rice".  Each turn starts from the
\* session the turns before it are claimed to leave.
C2_Scenario ==
    (Merging /\ Replied) =>
        /\ ( /\ call.text = TxtSale /\ call.nlu_data = [intent |-> "SALE"]
             /\ Before = NewSession(now) )
           => (ret.action = "listen" /\ ret.text.prompt = "Customer Name?")
        /\ ( /\ call.text = TxtRamesh /\ call.nlu_data = [customerName |-> "Ramesh"]
             /\ Before.intent = "SALE" /\ Before.customerName = None
             /\ Before.items = <<>> )
           => (ret.action = "listen" /\ ret.text.prompt = "Which item?")
        /\ ( /\ ~IsFinish(call.text) /\ call.nlu_data = [items |-> <<Rice540>>]
             /\ Before.intent = "SALE" /\ Before.customerName = "Ramesh"
             /\ Before.items = <<>> )
           => (ret.action = "listen" /\ ret.text.prompt = "Added. Anything else?")
        /\ ( /\ call.text = TxtDone /\ call.nlu_data = EmptyNlu
             /\ Before.intent = "SALE" /\ Before.customerName = "Ramesh"
             /\ Before.items = <<Rice540>> )
           => ( /\ ret.action = "confirm"
                /\ ret.text.customerName = "Ramesh"
                /\ \E i \in DOMAIN ret.text.items : ret.text.items[i] = <<"5", "Rice">> )

\* the texts of the inputs that hold a cancel/stop keyword
CancelTexts == {TxtCancel, TxtBand}

C3_CancelState ==
    (IsTurn /\ call.text \in CancelTexts) =>
        /\ ret.action = "cancel"
        /\ merged = <<>>
        /\ call.user_uid \notin DOMAIN sessions
        /\ DOMAIN sessions = (DOMAIN pre) \ {call.user_uid}
        /\ \A u \in DOMAIN sessions : sessions[u] = pre[u]

C3_CancelThenGet ==
    ( /\ IsTurn /\ call.text \in CancelTexts
      /\ call'.op = "get_session" /\ call'.user_uid = call.user_uid )
    => ( /\ ret'.value = NewSession(now')
         /\ sessions'[call.user_uid] = ret'.value )

\* C3: in every reachable state a turn whose text holds a cancel/stop keyword
\* returns action cancel, merges nothing into any session and removes the
\* user's session, and the get_session that follows returns a brand-new
\* session (intent and customerName None, items empty, active false).
C3_CancelPrecedence == [] C3_CancelState /\ [][C3_CancelThenGet]_vars

\* a cancel turn with a non-empty extraction on a session that has an intent
\* and a customer (the state a confirm response leaves), next to another
\* user's session
C3_Witness ==
    /\ IsTurn /\ call.text = TxtCancel
    /\ ret.action = "cancel"
    /\ call.nlu_data # EmptyNlu
    /\ call.user_uid \in DOMAIN pre
    /\ pre[call.user_uid].intent # None
    /\ pre[call.user_uid].customerName # None
    /\ \E u \in DOMAIN sessions : sessions[u].intent # None

\* C4: get_session returns the stored session unchanged when
\* now - last_active <= 60 (60 included) and, when now - last_active > 60,
\* discards it and returns a freshly initialised one (active false, intent
\* and customerName None, items empty).
C4_TimeoutEviction ==
    (call.op = "get_session" /\ call.user_uid \in DOMAIN pre) =>
        LET old == pre[call.user_uid] IN
        /\ ret.value = sessions[call.user_uid]
        /\ IF now - old.last_active <= 60
           THEN sessions[call.user_uid] = old
           ELSE /\ sessions[call.user_uid] = NewSession(now)
                /\ ret.value.active = FALSE
                /\ ret.value.intent = None
                /\ ret.value.customerName = None
                /\ ret.value.items = <<>>

\* a get_session 61 seconds after the last activity of a session that had an
\* intent
C4_Witness ==
    /\ call.op = "get_session"
    /\ call.user_uid \in DOMAIN pre
    /\ now - pre[call.user_uid].last_active = 61
    /\ pre[call.user_uid].intent # None
    /\ sessions[call.user_uid].intent = None

\* the extraction of the last turn is one fragment without an itemName
OneNamelessFragment ==
    /\ "items" \in DOMAIN call.nlu_data
    /\ Len(call.nlu_data.items) = 1
    /\ Get(call.nlu_data.items[1], "itemName") = None

\* C5: when the session has at least one item, merging a fragment with no
\* itemName keeps the number of items and every item but the last, sets the
\* last item's qty (price) to the fragment's only if it is currently null,
\* and never overwrites a non-null qty or price of the last item.
C5_CompletionTargeting ==
    (Merging /\ OneNamelessFragment /\ Before.items # <<>>) =>
        LET b == Before.items
            m == merged[1].items
            n == Len(b)
            it == call.nlu_data.items[1]
        IN  /\ Len(m) = n
            /\ \A i \in 1..(n - 1) : m[i] = b[i]
            /\ Get(m[n], "itemName") = Get(b[n], "itemName")
            /\ \A k \in {"qty", "price"} :
                  /\ Get(b[n], k) # None => Get(m[n], k) = Get(b[n], k)
                  /\ Get(b[n], k) = None => Get(m[n], k) \in {None, Get(it, k)}

\* C6: when session.items is empty, merging a fragment that has no itemName
\* appends nothing and does not raise, and the planner answers that session
\* in the item phase with "which item?" and action listen.
C6_DanglingFragment ==
    (Merging /\ OneNamelessFragment /\ Before.items = <<>>) =>
        /\ merged[1].items = <<>>
        /\ Replied
        /\ (merged[1].intent = "create_bill" /\ merged[1].customerName # None)
           => (ret.action = "listen" /\ ret.text.prompt = "Which item?")

\* C7: merging an extraction whose customerName is null leaves the session's
\* customerName unchanged; a non-null customerName replaces it, also when a
\* different name was set before.
C7_CustomerNameOverwrite ==
    Merging =>
        LET c == Get(call.nlu_data, "customerName")
            expected == IF c = None THEN Before.customerName ELSE c
        IN  /\ merged[1].customerName = expected
            /\ sessions[call.user_uid].customerName = expected

\* Suresh replaces Ramesh
C7_Witness ==
    /\ Merging
    /\ Before.customerName = "Ramesh"
    /\ Get(call.nlu_data, "customerName") = "Suresh"
    /\ sessions[call.user_uid].customerName = "Suresh"

\* every field of the extraction of the last turn is null
AllNullExtraction ==
    /\ Get(call.nlu_data, "intent") = None
    /\ Get(call.nlu_data, "customerName") = None
    /\ "payment" \notin DOMAIN call.nlu_data
    /\ \A i \in DOMAIN GetOr(call.nlu_data, "items", <<>>) :
          \A k \in {"itemName", "qty", "price"} :
              Get(call.nlu_data.items[i], k) = None

\* C8: merging an extraction in which every field is null leaves intent,
\* active, customerName, items and payment unchanged.
C8_MergeNulls ==
    (Merging /\ AllNullExtraction) =>
        \A k \in {"intent", "active", "customerName", "items", "payment"} :
            merged[1][k] = Before[k]

\* C9: update_session on an existing session overwrites exactly the fields
\* given with a non-null value, leaves every other field unchanged and
\* refreshes last_active.
C9_UpdateMergePreserving ==
    (call.op = "update_session" /\ call.user_uid \in DOMAIN pre) =>
        LET old == pre[call.user_uid]
            new == sessions[call.user_uid]
        IN  /\ DOMAIN sessions = DOMAIN pre
            /\ \A u \in (DOMAIN pre) \ {call.user_uid} : sessions[u] = pre[u]
            /\ new.last_active = now
            /\ \A k \in (DOMAIN old) \ {"last_active"} :
                  new[k] = IF k \in DOMAIN call.data.vals
                           THEN call.data.vals[k] ELSE old[k]

\* an update that names customerName as None and sets intent, a minute after
\* the session was last active
C9_Witness ==
    /\ call.op = "update_session"
    /\ call.user_uid \in DOMAIN pre
    /\ "customerName" \in call.data.nulls
    /\ pre[call.user_uid].customerName = "Ramesh"
    /\ sessions[call.user_uid].customerName = "Ramesh"
    /\ pre[call.user_uid].intent = "SALE"
    /\ sessions[call.user_uid].intent = "PAYMENT"
    /\ pre[call.user_uid].last_active < now

\* C10: a turn whose extraction carries a payment folds it into
\* session.payment field by field: a non-null amount or mode replaces the
\* session's, a null one leaves it unchanged.
C10_PaymentMerge ==
    (Merging /\ "payment" \in DOMAIN call.nlu_data) =>
        \A k \in {"amount", "mode"} :
            sessions[call.user_uid].payment[k] =
                IF call.nlu_data.payment[k] # None
                THEN call.nlu_data.payment[k] ELSE Before.payment[k]

\* C11: a turn whose extraction has an intent while session.intent is null
\* sets session.intent and session.active = true, so that in every reachable
\* state each stored session is active exactly when its intent is non-null.
C11_ActiveTracksIntent ==
    \A u \in DOMAIN sessions : sessions[u].active = (sessions[u].intent # None)

\* the last turn planned a session whose intent is create_bill and whose
\* customer is known: the item phase of lines 81-107
InItemPhase ==
    /\ Merging
    /\ merged[1].intent = "create_bill"
    /\ merged[1].customerName # None

\* the texts of the inputs that hold a finish keyword
FinishTexts == {TxtDone}

\* after the merge the last item has a name, a qty and a price (or
\* salePrice) and the text holds a finish keyword
ConfirmGate ==
    /\ merged[1].items # <<>>
    /\ LET last == merged[1].items[Len(merged[1].items)]
       IN  /\ Get(last, "itemName") # None
           /\ Get(last, "qty") # None
           /\ (Get(last, "price") # None \/ Get(last, "salePrice") # None)
    /\ call.text \in FinishTexts

\* C12: in the create-bill item phase determine_next_step returns confirm
\* only if, after the merge, items is non-empty, the last item has a name, a
\* qty and a price (or salePrice) and the text holds a finish keyword; in
\* every other case of the phase it returns listen.
C12_ConfirmationGate ==
    InItemPhase =>
        /\ (Replied /\ ret.action = "confirm") => ConfirmGate
        /\ ~ConfirmGate => (Replied /\ ret.action = "listen")

\* a confirm in the item phase on a bill of two items
C12_Witness ==
    /\ InItemPhase
    /\ Replied
    /\ ret.action = "confirm"
    /\ Len(merged[1].items) = 2
    /\ ConfirmGate

\* C13: for every reachable session and every extraction of the extractor's
\* shape, determine_next_step returns a result whose action is listen,
\* confirm or cancel, with a payload exactly when the action is confirm; it
\* never raises.
C13_NeverRaises ==
    IsTurn =>
        /\ Replied
        /\ ret.action \in {"listen", "confirm", "cancel"}
        /\ ("payload" \in DOMAIN ret) <=> (ret.action = "confirm")

\* the last call went through the extractor and the extractor failed
ExtractorFailed == "extractor" \in DOMAIN call /\ call.extractor = "failed"

Only(S, uid) == [u \in (DOMAIN S) \cap {uid} |-> S[u]]

\* what the last operation leaves for its user when it runs on the store S
AloneOutcome(S) ==
    LET u == call.user_uid IN
    CASE call.op = "get_session" ->
             Only(GetSessionStore(S, u, now), u)
      [] call.op = "update_session" ->
             Only(UpdateSessionStore(S, u, call.data, now), u)
      [] call.op = "clear_session" ->
             Only(ClearSessionStore(S, u), u)
      [] call.op = "determine_next_step" ->
             LET S0 == GetSessionStore(S, u, now)
                 s == [S0[u] EXCEPT !.last_active = now]
             IN  IF merged = <<>> THEN <<>>
                 ELSE Only(SetKey(S0, u, Plan(MergeNluToSession(s, call.nlu_data),
                                              call.text, call.nlu_data).session), u)

\* what the last turn answers when it runs on the store S
AloneReply(S) ==
    LET u == call.user_uid
        S0 == GetSessionStore(S, u, now)
        s == [S0[u] EXCEPT !.last_active = now]
    IN  Plan(MergeNluToSession(s, call.nlu_data), call.text, call.nlu_data).ret

\* C15: an operation or turn of one user leaves the session of every other
\* user unchanged, and what it leaves for its own user is what it leaves
\* when that user is alone in the store, so that interleaved turns of
\* different users end as each user's turns run alone.
C15_UserIndependence ==
    ("user_uid" \in DOMAIN call) =>
        /\ \A v \in TwoUsers \ {call.user_uid} :
              /\ (v \in DOMAIN sessions) <=> (v \in DOMAIN pre)
              /\ v \in DOMAIN pre => sessions[v] = pre[v]
        /\ Only(sessions, call.user_uid) = AloneOutcome(Only(pre, call.user_uid))
        /\ Merging => ret = AloneReply(Only(pre, call.user_uid))

\* a cancel of one user next to the live conversation of the other
C15_Witness ==
    /\ IsTurn
    /\ ret.action = "cancel"
    /\ call.user_uid \in DOMAIN pre
    /\ \E v \in TwoUsers \ {call.user_uid} :
          /\ v \in DOMAIN sessions
          /\ sessions[v].intent # None
          /\ sessions[v].last_active # pre[call.user_uid].last_active

\* C16: once now - last_active > 60 for a user's session, every later get,
\* update or turn of that user behaves as if no session had ever existed for
\* the user: the get_session that follows returns what it returns after the
\* same operation on a store without the user, and a turn answers the same.
C16_ExpiryTotal ==
    ( /\ "user_uid" \in DOMAIN call
      /\ call.user_uid \in DOMAIN pre
      /\ now - pre[call.user_uid].last_active > 60 )
    => /\ GetSessionStore(sessions, call.user_uid, now)[call.user_uid]
            = GetSessionStore(AloneOutcome(<<>>), call.user_uid, now)[call.user_uid]
       /\ Merging => ret = AloneReply(<<>>)

\* the session a whole turn leaves (lines 63-118, no interrupt)
AfterTurn(session, turn) ==
    Plan(MergeNluToSession(session, turn.nlu_data), turn.text, turn.nlu_data).session

\* the items the two finished turns leave when they run one after the other
SequentialItems ==
    LET s == inflight.start[1]
        a == inflight.done[1]
        b == inflight.done[2]
    IN  {AfterTurn(AfterTurn(s, a), b).items, AfterTurn(AfterTurn(s, b), a).items}

BothDone == inflight.turns = <<>> /\ Len(inflight.done) = 2

\* the item names a finished turn brought
NamesOf(turn) ==
    {Get(turn.nlu_data.items[i], "itemName") : i \in DOMAIN turn.nlu_data.items} \ {None}

\* the two finished turns name different items, so that an item tells the
\* turn it came from
DistinctNames == NamesOf(inflight.done[1]) \cap NamesOf(inflight.done[2]) = {}

\* C17: when the merge loops of two unserialised turns of one user
\* interleave fragment by fragment, a nameless completion fragment of one
\* turn can be merged while the last item is the one the other turn
\* appended, and the items the two turns then leave (the turns naming
\* different items) are the result of neither sequential order of the two.
C17_LastItemCorrupted ==
    (BothDone /\ inflight.crossed /\ DistinctNames) =>
        sessions[RaceUser].items \notin SequentialItems

\* both turns are over and a fragment of one went to the other's item
C17_Witness ==
    /\ BothDone
    /\ inflight.crossed
    /\ DistinctNames
    /\ Len(sessions[RaceUser].items) = 2
    /\ sessions[RaceUser].items \notin SequentialItems

\* C18: within one session lifetime the items before a turn are a prefix of
\* the items after it, except that null qty or price of the last previous
\* item may have been filled in; the length never decreases and no existing
\* item is removed or replaced.
C18_ItemsAppendOnly ==
    Merging =>
        LET b == Before.items
            a == sessions[call.user_uid].items
            n == Len(b)
        IN  /\ Len(a) >= n
            /\ \A i \in 1..(n - 1) : a[i] = b[i]
            /\ n > 0 =>
                  /\ Get(a[n], "itemName") = Get(b[n], "itemName")
                  /\ \A k \in {"qty", "price"} :
                        Get(b[n], k) # None => Get(a[n], k) = Get(b[n], k)

\* C19: turn_count counts turns: every determine_next_step turn that does
\* not cancel leaves turn_count one higher than the session had when the
\* turn began (0 for a fresh session).
C19_TurnCountCounts ==
    Merging => sessions[call.user_uid].turn_count = Before.turn_count + 1

\* C20: last_question tracks the question asked: after a turn that returns
\* action listen with the intent question, last_question is "intent"; with
\* the customer question, "customerName"; with an item question (item name,
\* quantity, price), it holds a tag of its own, so it is neither null nor
\* still the tag of the earlier intent or customer question.
ItemQuestions ==
    {"Which item?", "Please say the item name again.", "Quantity?", "Price?"}

C20_LastQuestionTracks ==
    (Merging /\ Replied /\ ret.action = "listen") =>
        LET q == sessions[call.user_uid].last_question
        IN  /\ ret.text.prompt = "Bill, Payment or Return?" => q = "intent"
            /\ ret.text.prompt = "Customer Name?" => q = "customerName"
            /\ ret.text.prompt \in ItemQuestions => q \notin {None, "intent", "customerName"}


\* the merged session is in the create-bill item phase and its last item
\* has no itemName
NamelessLast ==
    /\ Merging
    /\ merged[1].intent = "create_bill"
    /\ Truthy(merged[1].customerName)
    /\ merged[1].items # <<>>
    /\ Get(merged[1].items[Len(merged[1].items)], "itemName") = None

\* C21: in the create-bill item phase, when the last item has no itemName
\* after the merge, the planner removes exactly that last item, leaves the
\* earlier items unchanged and returns action listen with the re-prompt for
\* the item name; it neither confirms nor raises.
C21_SelfHealing ==
    NamelessLast =>
        /\ Replied
        /\ ret.action = "listen"
        /\ ret.text.prompt = "Please say the item name again."
        /\ sessions[call.user_uid].items =
              SubSeq(merged[1].items, 1, Len(merged[1].items) - 1)

C21_Witness ==
    /\ NamelessLast
    /\ Len(merged[1].items) = 2
    /\ sessions[call.user_uid].items = <<merged[1].items[1]>>
    /\ ret.action = "listen"


\* the planner is asked about a named last item in the create-bill flow
NamedLast ==
    /\ Merging
    /\ merged[1].intent = "create_bill"
    /\ Truthy(merged[1].customerName)
    /\ merged[1].items # <<>>
    /\ Get(merged[1].items[Len(merged[1].items)], "itemName") # None

\* C22: the planner treats the last item as complete exactly when its
\* itemName, qty and price (or salePrice) are all non-null: it asks for the
\* quantity or the price exactly when one of them is null, so qty 0 or
\* price 0 counts as given.
C22_CompleteByNonNull ==
    NamedLast =>
        LET last == merged[1].items[Len(merged[1].items)]
            complete == /\ Get(last, "qty") # None
                        /\ \/ Get(last, "price") # None
                           \/ Get(last, "salePrice") # None
            asks == /\ Replied
                    /\ ret.action = "listen"
                    /\ ret.text.prompt \in {"Quantity?", "Price?"}
        IN  asks <=> ~complete


\* the two prompts that ask for the item name are one question
QuestionOf(prompt) ==
    IF prompt = "Please say the item name again." THEN "Which item?" ELSE prompt

\* the step is a turn of the user just asked or shown the confirmation,
\* carrying no information:
\* the empty extraction and a text without cancel or finish keyword
NoInformationTurn ==
    /\ Merging /\ Replied
    /\ call'.op = "determine_next_step"
    /\ call'.user_uid = call.user_uid
    /\ call'.nlu_data = EmptyNlu
    /\ call'.text = TxtSale
    /\ now' = now

\* C23: a turn that carries no information leaves intent, customerName,
\* items and payment unchanged and returns the same action asking the same
\* question as the previous turn's response; directly after a confirm it
\* does not move the dialogue to a different question.
C23_ReAsk ==
    [][NoInformationTurn =>
          LET old == sessions[call.user_uid]
              new == sessions'[call.user_uid]
          IN  /\ new.intent = old.intent
              /\ new.customerName = old.customerName
              /\ new.items = old.items
              /\ new.payment = old.payment
              /\ "action" \in DOMAIN ret'
              /\ ret'.action = ret.action
              /\ QuestionOf(ret'.text.prompt) = QuestionOf(ret.text.prompt)]_vars


SessionContents(session) ==
    <<session.intent, session.customerName, session.items, session.payment>>

\* the last call was a turn that answered with the confirmation
Confirmed == Merging /\ Replied /\ ret.action = "confirm"

\* a confirm turn leaves the session in the store as merged, and the
\* payload is that session
C24_ConfirmKeeps ==
    Confirmed =>
        /\ call.user_uid \in DOMAIN sessions
        /\ SessionContents(sessions[call.user_uid]) = SessionContents(merged[1])
        /\ SessionContents(ret.payload) = SessionContents(sessions[call.user_uid])

\* a stored session leaves the store only by clear_session or a cancel
\* turn, and a later access gives it back unchanged unless it has timed out
C24_RemovedOnlyBy ==
    \A u \in DOMAIN sessions :
        /\ u \notin DOMAIN sessions' =>
              \/ call'.op = "clear_session" /\ call'.user_uid = u
              \/ /\ call'.op = "determine_next_step" /\ call'.user_uid = u
                 /\ call'.text \in CancelTexts
        /\ ( /\ call'.op \in {"get_session", "tick"}
             /\ now' - sessions[u].last_active <= SESSION_TIMEOUT )
           => /\ u \in DOMAIN sessions'
              /\ SessionContents(sessions'[u]) = SessionContents(sessions[u])

\* C24: a turn that returns action confirm leaves the user's session in the
\* store with intent, customerName, items and payment unchanged, and its
\* payload carries exactly those contents; the session is removed only by
\* a cancel turn, by clear_session, or by timeout on a later access.
C24_ConfirmationKeepsSession ==
    []C24_ConfirmKeeps /\ [][C24_RemovedOnlyBy]_vars

\* a confirmed bill with an item is in the store after its confirm turn
C24_Witness ==
    /\ Confirmed
    /\ call.user_uid \in DOMAIN sessions
    /\ sessions[call.user_uid].intent = "create_bill"
    /\ sessions[call.user_uid].items # <<>>
    /\ SessionContents(ret.payload) = SessionContents(sessions[call.user_uid])


\* C25: whenever determine_next_step returns action confirm for a session in
\* the create-bill flow, every item of the payload (not only the last) has
\* a non-null itemName, qty and price (or salePrice).
C25_ConfirmedBillComplete ==
    (Confirmed /\ ret.payload.intent = "create_bill") =>
        \A i \in 1..Len(ret.payload.items) :
            LET item == ret.payload.items[i]
            IN  /\ Get(item, "itemName") # None
                /\ Get(item, "qty") # None
                /\ (Get(item, "price") # None \/ Get(item, "salePrice") # None)


\* get_session of a session that has not timed out returns it and leaves
\* the whole store as it was
C26_GetLeavesStore ==
    ( /\ call.op = "get_session"
      /\ call.user_uid \in DOMAIN pre
      /\ now - pre[call.user_uid].last_active <= SESSION_TIMEOUT )
    => /\ sessions = pre
       /\ ret.value = pre[call.user_uid]

\* last_active of a stored session moves only in update_session and
\* determine_next_step, or when get_session replaces a timed-out session
C26_RefreshedOnlyBy ==
    \A u \in DOMAIN sessions \cap DOMAIN sessions' :
        sessions'[u].last_active # sessions[u].last_active =>
            \/ call'.op \in {"update_session", "determine_next_step"}
            \/ /\ call'.op = "get_session" /\ call'.user_uid = u
               /\ now' - sessions[u].last_active > SESSION_TIMEOUT

\* C26: get_session on a session that has not timed out returns it without
\* changing any field, last_active included; only update_session and
\* determine_next_step refresh last_active, so get_session calls alone
\* never extend a session's lifetime.
C26_GetReadOnly ==
    []C26_GetLeavesStore /\ [][C26_RefreshedOnlyBy]_vars

\* a get_session 60 seconds after the last activity of a session that has
\* an intent: the session is returned with its old last_active
C26_Witness ==
    /\ call.op = "get_session"
    /\ call.user_uid \in DOMAIN pre
    /\ now - pre[call.user_uid].last_active = 60
    /\ pre[call.user_uid].intent # None
    /\ sessions[call.user_uid].last_active = now - 60


\* no user has more than RATE_LIMIT_MAX calls returned normally in a window
C27_AtMostMax == \A u \in DOMAIN window : window[u] <= RATE_LIMIT_MAX

\* a call is rejected with 429 exactly when its window has already admitted
\* RATE_LIMIT_MAX calls; a rejected call keeps reset_time; a call after
\* reset_time is admitted and starts a window with count 1
C27_CallOutcome ==
    call'.op = "check_rate_limit" =>
        LET u == call'.user_uid
            known == u \in DOMAIN RATE_LIMIT_STORE
            after == known /\ now' > RATE_LIMIT_STORE[u].reset_time
            admittedBefore == IF known /\ ~after THEN window[u] ELSE 0
            rejected == "raised" \in DOMAIN ret'
        IN  /\ rejected <=> admittedBefore >= RATE_LIMIT_MAX
            /\ rejected => ret'.raised = "429"
            /\ rejected =>
                  RATE_LIMIT_STORE'[u].reset_time = RATE_LIMIT_STORE[u].reset_time
            /\ after =>
                  /\ ~rejected
                  /\ RATE_LIMIT_STORE'[u].count = 1
                  /\ RATE_LIMIT_STORE'[u].reset_time = now' + RATE_LIMIT_DURATION

\* C27: for each user, between two window resets at most RATE_LIMIT_MAX
\* (60) calls of check_rate_limit return normally and every further call
\* in that window is rejected with 429; rejected calls do not move
\* reset_time, and the first call made after reset_time is admitted and
\* starts a new window with count 1.
C27_RateLimitBound ==
    []C27_AtMostMax /\ [][C27_CallOutcome]_vars

\* a user's window has admitted 60 calls and the last call was rejected,
\* while the other user has started a second window
C27_Witness ==
    /\ call.op = "check_rate_limit"
    /\ "raised" \in DOMAIN ret
    /\ window[call.user_uid] = RATE_LIMIT_MAX
    /\ RATE_LIMIT_STORE[call.user_uid].reset_time = pre[call.user_uid].reset_time
    /\ \E v \in DOMAIN RATE_LIMIT_STORE :
          /\ v # call.user_uid
          /\ RATE_LIMIT_STORE[v].reset_time > RATE_LIMIT_DURATION


\* the stored updated_at of every row is the greatest pushed for its id
C28_StoredIsMax ==
    \A id \in DOMAIN rows : id \in DOMAIN pushed /\ rows[id].updated_at = pushed[id]

\* a push of one item for a stored id overwrites the row exactly when the
\* item's updated_at is strictly greater; no push lowers a stored
\* updated_at or touches a row for whose id it brings nothing newer
C28_OverwriteOnlyNewer ==
    call'.op = "push_changes" =>
        /\ \A id \in DOMAIN rows :
              /\ id \in DOMAIN rows'
              /\ rows'[id].updated_at >= rows[id].updated_at
              /\ (\A i \in 1..Len(call'.customers) :
                     call'.customers[i].id = id =>
                        call'.customers[i].updated_at <= rows[id].updated_at)
                 => rows'[id] = rows[id]
        /\ Len(call'.customers) = 1 =>
              LET item == call'.customers[1] IN
              (item.id \in DOMAIN rows /\ item.updated_at > rows[item.id].updated_at)
              => /\ rows'[item.id].updated_at = item.updated_at
                 /\ rows'[item.id].name = item.name

\* C28: an existing row is overwritten only by an incoming item whose
\* updated_at is strictly greater than the stored one; an equal or older
\* item leaves the row unchanged, so the stored updated_at never decreases
\* and always equals the maximum updated_at pushed so far for that id.
C28_LastWriteWins ==
    []C28_StoredIsMax /\ [][C28_OverwriteOnlyNewer]_vars

\* a push of an item as old as the stored row, with other contents, left
\* the row as it was
C28_Witness ==
    /\ call.op = "push_changes"
    /\ Len(call.customers) = 1
    /\ call.customers[1].id \in DOMAIN pre
    /\ call.customers[1].updated_at = pre[call.customers[1].id].updated_at
    /\ call.customers[1].name # pre[call.customers[1].id].name
    /\ rows = pre

\* C29: a push whose payload carries business_id B never modifies or
\* re-assigns a stored row whose business_id is a different business A.
C29_TenantsApart ==
    [][call'.op = "push_changes" =>
          \A id \in DOMAIN rows :
              rows[id].business_id # call'.business_id =>
                  (id \in DOMAIN rows' /\ rows'[id] = rows[id])]_vars


\* C30: when two create_bill requests for the same customer run
\* concurrently, each unpaid with positive due amounts d1 and d2, the
\* customer's totalDues after both complete equals its previous value plus
\* d1 + d2 under every interleaving of their reads and writes.
C30_NoLostDuesUpdate ==
    ( /\ DOMAIN requests = Requests
      /\ \A r \in Requests : requests[r].pc = "done" /\ requests[r].due_amount > 0 )
    => totalDues = InitialDues + requests["r1"].due_amount + requests["r2"].due_amount

====
